---- MODULE Spec2Model ----
(***************************************************************************)
(* Attendance session lifecycle of UNIOSUNTrack_Backend: the session       *)
(* routes (create, scan, end, cancel), the close/cancel helpers with the   *)
(* absentee back-fill, the auto-expire sweep, and the enrollment rows the  *)
(* back-fill reads.                                                        *)
(*                                                                         *)
(* Every handler is an async function: each `await` on the store is a      *)
(* suspension point, so a handler is a sequence of steps and the steps of  *)
(* different requests interleave.  One action models one such step (the    *)
(* store operation together with the synchronous code that follows it up   *)
(* to the next await).                                                     *)
(*                                                                         *)
(* The specifications share the state:                                     *)
(*   Spec     the lifecycle (create, close, cancel, sweep, scan) with its   *)
(*            races; a scan presents the primary token from inside the      *)
(*            zone, and the rotation set is left out.  One unit of `now`    *)
(*            is one minute.                                                *)
(*   QrSpec   the Active lifetime of the first QR session of a course:      *)
(*            tokens, rotation, refresh and the position check of a scan.   *)
(*            One unit of `now` is ten seconds.                             *)
(*   GeoSpec  the position check alone, over a grid of locations and fixes. *)
(*   TokenSpec the lookup of a scan against a stored session of any status.*)
(*   FormSpec the teacher's requests on a course without a session: create *)
(*            of any mode with any body, location updates, manual marks.   *)
(*   LockSpec location updates of a stored session whose location is       *)
(*            locked.                                                      *)
(*   SweepSpec sweeps and closes over a store with two overdue Active      *)
(*            sessions, or with an Expired one whose back-fill stopped.    *)
(*   RecreateSpec creates, with or without a usable location, on a course  *)
(*            that has an Active session, beside POST /end.                *)
(*   StoredSpec scans, refreshes, GET /active, closes and cancels on one   *)
(*            stored session of any mode and status.                       *)
(***************************************************************************)
EXTENDS Integers, Sequences, FiniteSets, TLC

\* ------------------------------------------------------------------ bounds
MaxSessions == 2
MaxTime == 2
MaxRequests == 3

Procs == {"p1", "p2"}
Students == {"s1", "s2"}
Courses == {"c1"}
Semesters == {"t1", "t2"}
SessionTypes == {"QR"}
DurationInputs == {1}
NoStudent == "none"

\* The token a scan presents; NoToken in a request that presents none.
NoToken == [kind |-> "none", n |-> 0]

\* req.body.location of a scan: dist is what getDistanceInMeters gives for the
\* student's coordinates and the session's, in metres; NoFix is a body
\* without location.
Fix(d, a) == [dist |-> d, accuracy |-> a]

NoFix == Fix(0 - 1, 0 - 1)

\* Number(x) of a body field that is missing or not numeric; it is no
\* number the requests of the model send.
NaN == 0 - 1000000

\* req.body.location of a create; NoLocation is a body without location, and
\* the location of a stored session that has none.
NoLocation == [accuracy |-> 0 - 1, lat |-> 0, lng |-> 0, radius |-> 0 - 1]

\* ------------------------------------------------------------------- state
VARIABLES
  now,          \* wall clock (new Date())
  enrollments,  \* Enrollment collection: rows [student, course, semester]
  sessions,     \* Session collection: sequence indexed by session id
  attendance,   \* Attendance collection: rows [session, student, semester, status]
  emitted,      \* the "attendance-updated" event published last: [session, source, seq]
  proc,         \* per in-flight request: handler, position, locals, response
  started       \* requests and sweeps started so far

vars == <<now, enrollments, sessions, attendance, emitted, proc, started>>

SessionIds == 1..Len(sessions)

\* Course.semester: the term a course (and so each of its sessions) belongs to.
CourseSemester(c) == "t1"

Idle ==
  [op |-> "idle", pc |-> "idle", cur |-> 0, todo |-> {}, st |-> NoStudent,
   arrival |-> 0, fStatus |-> "none", fExp |-> 0, absent |-> {},
   ctype |-> "none", cdur |-> 0, course |-> "none", res |-> "none",
   tok |-> NoToken, fix |-> NoFix, loc |-> NoLocation, floc |-> NoLocation]

NoEvent == [session |-> 0, source |-> "none", seq |-> 0]

Min(S) == CHOOSE x \in S : \A y \in S : x <= y

\* ---------------------------------------------------------- Attendance store
\* unique index { course, semester, student, session }; the course of a row is
\* always the course of its session, so the key is (session, student, semester).
KeyTaken(att, s, st, sem) ==
  \E a \in att : a.session = s /\ a.student = st /\ a.semester = sem

RecordsOf(s) == {a \in attendance : a.session = s}

RecordsFor(s, st) == {a \in attendance : a.session = s /\ a.student = st}

\* Enrollment.find({ course }): every row of the course, whatever its semester.
Roster(c) == {e \in enrollments : e.course = c}

\* ------------------------------------------------------------ enrollment
Row(st, c, sem) == [course |-> c, student |-> st, semester |-> sem]

\* Rosters that registration leaves behind.  POST /:courseId/enroll and
\* /register add the row (student, course, ACTIVE semester) unless that exact
\* row exists, so a student enrolled again after the next semester was
\* activated has two rows for the course, and a student enrolled only after
\* the activation has a row whose semester is not the course's.  Registration
\* precedes attendance taking: the roster is stable while sessions run.
Rosters ==
  { {Row("s1", "c1", "t1"), Row("s2", "c1", "t1")},
    {Row("s1", "c1", "t1"), Row("s1", "c1", "t2")},
    {Row("s1", "c1", "t2"), Row("s2", "c1", "t1")} }

\* ------------------------------------------------------------------- Init
Init ==
  /\ now = 0
  /\ enrollments \in Rosters
  /\ sessions = << >>
  /\ attendance = {}
  /\ emitted = NoEvent
  /\ proc = [p \in Procs |-> Idle]
  /\ started = 0

\* ------------------------------------------------------------------ clock
Tick ==
  /\ now < MaxTime
  /\ now' = now + 1
  /\ UNCHANGED <<enrollments, sessions, attendance, emitted, proc, started>>

\* ------------------------------------------------------- request plumbing
\* The request in slot p goes on to its next await with locals q.
Goto(p, q) == proc' = [proc EXCEPT ![p] = q]

\* The request in slot p is over and about to respond r; of its locals only
\* what identifies the request is kept (for a scan: the student, the token,
\* the arrival time and the deadline it read).
Finish(p, r) ==
  LET q == proc[p] IN
  proc' = [proc EXCEPT ![p] =
             [Idle EXCEPT !.op = q.op, !.pc = "done", !.res = r, !.cur = q.cur,
                          !.st = q.st, !.arrival = q.arrival, !.tok = q.tok,
                          !.fExp = IF q.op = "scan" THEN q.fExp ELSE 0]]

\* res.status(...).json(...), or the sweep's return after its console log:
\* the outcome leaves and the slot is free.
Respond(p) ==
  /\ proc[p].pc = "done"
  /\ proc' = [proc EXCEPT ![p] = Idle]
  /\ UNCHANGED <<now, enrollments, sessions, attendance, emitted, started>>

\* ------------------------------------- POST /:courseId/create, the body
RawLocation(la, ln, r, a) == [accuracy |-> a, lat |-> la, lng |-> ln, radius |-> r]

\* ["QR", "MANUAL", "ROLLCALL"].includes(type?.toUpperCase()) ? ... : "MANUAL"
SafeType(type) == IF type \in {"QR", "MANUAL", "ROLLCALL"} THEN type ELSE "MANUAL"

\* Number.isFinite(Number(x))
IsFinite(x) == x # NaN

\* The location check asking only that the body has a location.
LocationRejectionPresenceOnly(loc) ==
  IF loc = NoLocation THEN "location-required" ELSE "ok"

\* The two 400s of a QR create: "Lecture location is required for QR
\* sessions", then "Invalid GPS data received".
LocationRejection(loc) ==
  IF loc = NoLocation \/ ~ IsFinite(loc.lat) \/ ~ IsFinite(loc.lng) THEN "location-required"
  ELSE IF ~ IsFinite(loc.accuracy) THEN "invalid-gps"
  ELSE "ok"

\* What the create route answers in place of persisting: nothing for a mode
\* other than QR.
CreateRejection(type, loc) ==
  IF SafeType(type) = "QR" THEN LocationRejection(loc) ELSE "ok"

\* ------------------------------------------------------------- endSession
\* What the caller of endSession does when the call returns or throws.
\*   POST /:sessionId/end    responds (there is no try/catch around the call)
\*   POST /:courseId/create  closes the next session found, then checks the
\*                           body (400 for a QR create without a usable
\*                           location) and goes on to persist the new session
\*                           (cur stays the session it closed last); a throw
\*                           is caught and answered 500
\*   expireSessions          closes the next session found; a throw is caught
\*                           outside the loop, which it therefore leaves
AfterEnd(p, threw) ==
  LET q == proc[p]
      rest == q.todo \ {q.cur}
  IN  IF threw THEN Finish(p, "error")
      ELSE IF q.op = "end" THEN Finish(p, "ended")
      ELSE IF rest # {}
        THEN Goto(p, [q EXCEPT !.pc = "end_read", !.cur = Min(rest), !.todo = rest,
                               !.absent = {}, !.fStatus = "none", !.fExp = 0])
      ELSE IF q.op = "sweep" THEN Finish(p, "swept")
      ELSE IF CreateRejection(q.ctype, q.loc) # "ok"
        THEN Finish(p, CreateRejection(q.ctype, q.loc))
      ELSE Goto(p, [q EXCEPT !.pc = "create_persist", !.todo = {},
                             !.absent = {}, !.fStatus = "none", !.fExp = 0])

\* endSession's guard on the re-read session: only "expired" returns early.
EndSessionSkips(status) == status = "expired"

\* const fresh = await Session.findById(session._id); the early return, or
\* the in-memory fresh.status = "expired"; fresh.expiresAt = new Date()
EndRead(p) ==
  LET q == proc[p] IN
  /\ q.pc = "end_read"
  /\ IF EndSessionSkips(sessions[q.cur].status)
       THEN AfterEnd(p, FALSE)
       ELSE Goto(p, [q EXCEPT !.pc = "end_save",
                              !.fStatus = sessions[q.cur].status, !.fExp = now])
  /\ UNCHANGED <<now, enrollments, sessions, attendance, emitted, started>>

\* The close going on to the back-fill with the status change still unsaved.
EndSaveDeferred(p) ==
  LET q == proc[p] IN
  /\ q.pc = "end_save"
  /\ Goto(p, [q EXCEPT !.pc = "end_find"])
  /\ UNCHANGED <<now, enrollments, sessions, attendance, emitted, started>>

\* await fresh.save(): writes the modified paths status and expiresAt
EndSave(p) ==
  LET q == proc[p] IN
  /\ q.pc = "end_save"
  /\ sessions' = [sessions EXCEPT ![q.cur].status = "expired",
                                  ![q.cur].expiresAt = q.fExp]
  /\ Goto(p, [q EXCEPT !.pc = "end_find"])
  /\ UNCHANGED <<now, enrollments, attendance, emitted, started>>

\* markAbsenteesForSession, steps 1-3: the roster rows of the course whose
\* student has no record (of any status) for the session.
Absentees(s) ==
  {e \in Roster(sessions[s].course) : RecordsFor(s, e.student) = {}}

AbsentRecord(s, e) ==
  [session |-> s, student |-> e.student, semester |-> e.semester, status |-> "Absent"]

\* emitAttendanceUpdate(io, { ..., source }): seq tells one publication from
\* the next.
Emit(s, source) == [session |-> s, source |-> source, seq |-> 1 - emitted.seq]

\* await Attendance.find({ session }); with nothing to insert the close goes on
\* to publish and return.
EndFind(p) ==
  LET q == proc[p]
      abs == Absentees(q.cur)
  IN
  /\ q.pc = "end_find"
  /\ IF abs = {}
       THEN /\ emitted' = Emit(q.cur, "auto-expire")
            /\ AfterEnd(p, FALSE)
       ELSE /\ emitted' = emitted
            /\ Goto(p, [q EXCEPT !.pc = "end_insert", !.absent = abs])
  /\ UNCHANGED <<now, enrollments, sessions, attendance, started>>

\* await Attendance.insertMany(absentees): ordered, one document at a time; a
\* document whose index key is taken raises a duplicate-key error, which ends
\* the batch and is thrown out of endSession.  After the last document the
\* close publishes and returns.
EndInsert(p) ==
  LET q == proc[p] IN
  /\ q.pc = "end_insert"
  /\ \E e \in q.absent :
       IF KeyTaken(attendance, q.cur, e.student, e.semester)
         THEN /\ AfterEnd(p, TRUE)
              /\ UNCHANGED <<attendance, emitted>>
         ELSE /\ attendance' = attendance \cup {AbsentRecord(q.cur, e)}
              /\ IF q.absent = {e}
                   THEN /\ emitted' = Emit(q.cur, "auto-expire")
                        /\ AfterEnd(p, FALSE)
                   ELSE /\ emitted' = emitted
                        /\ Goto(p, [q EXCEPT !.absent = q.absent \ {e}])
  /\ UNCHANGED <<now, enrollments, sessions, started>>

\* ------------------------------------------------ POST /:sessionId/end
\* Session.findById (404 when missing), then endSession: no check of status.
StartEnd(p, s) ==
  /\ proc[p].op = "idle"
  /\ s \in SessionIds
  /\ Goto(p, [Idle EXCEPT !.op = "end", !.pc = "end_read", !.cur = s])
  /\ started < MaxRequests
  /\ started' = started + 1
  /\ UNCHANGED <<now, enrollments, sessions, attendance, emitted>>

\* ------------------------------------------------------- expireSessions
\* Session.find({ status: "active", expiresAt: { $lte: now } })
SweepSelects(s) == sessions[s].status = "active" /\ sessions[s].expiresAt <= now

StartSweep(p) ==
  LET found == {s \in SessionIds : SweepSelects(s)} IN
  /\ proc[p].op = "idle"
  /\ found # {}
  /\ Goto(p, [Idle EXCEPT !.op = "sweep", !.pc = "end_read",
                          !.cur = Min(found), !.todo = found])
  /\ started < MaxRequests
  /\ started' = started + 1
  /\ UNCHANGED <<now, enrollments, sessions, attendance, emitted>>

\* ------------------------------------------------ POST /:courseId/create
\* The fixed ten minutes of the earlier create route.
SafeDurationTenMinutes(d) == 10

\* Math.min(Math.max(Number(duration) || 10, 1), 180): NaN and 0 are falsy
SafeDuration(d) ==
  LET n == IF d = NaN \/ d = 0 THEN 10 ELSE d
      lo == IF n < 1 THEN 1 ELSE n
  IN  IF lo > 180 THEN 180 ELSE lo

\* Session.find({ course, status: "active" })
ActiveSessionsOf(c) == {s \in SessionIds : sessions[s].course = c /\ sessions[s].status = "active"}

\* Sessions that in-flight create requests are still going to persist.
PendingCreates == Cardinality({q \in Procs : proc[q].op = "create"})

StartCreate(p, c, type, loc, duration) ==
  LET found == ActiveSessionsOf(c)
      body == [Idle EXCEPT !.op = "create", !.course = c, !.ctype = type,
                           !.cdur = duration, !.loc = loc]
  IN
  /\ proc[p].op = "idle"
  /\ Len(sessions) + PendingCreates < MaxSessions
  /\ IF found # {}
       THEN Goto(p, [body EXCEPT !.pc = "end_read", !.cur = Min(found), !.todo = found])
     ELSE IF CreateRejection(type, loc) # "ok"
       THEN Goto(p, [body EXCEPT !.pc = "done", !.res = CreateRejection(type, loc)])
     ELSE Goto(p, [body EXCEPT !.pc = "create_persist"])
  /\ started < MaxRequests
  /\ started' = started + 1
  /\ UNCHANGED <<now, enrollments, sessions, attendance, emitted>>

\* await Session.create(sessionData); then the "session-created" event
CreatePersist(p) ==
  LET q == proc[p]
      new == [course |-> q.course, semester |-> CourseSemester(q.course),
              status |-> "active", expiresAt |-> now + SafeDuration(q.cdur),
              type |-> q.ctype]
  IN
  /\ q.pc = "create_persist"
  /\ sessions' = Append(sessions, new)
  /\ emitted' = Emit(Len(sessions) + 1, "session-created")
  /\ proc' = [proc EXCEPT ![p] = [Idle EXCEPT !.op = "create", !.pc = "done",
                                         !.res = "created", !.cur = Len(sessions) + 1]]
  /\ UNCHANGED <<now, enrollments, attendance, started>>

\* ------------------------------------------------ POST /:sessionId/cancel
\* The route turning away only what is already cancelled.
CancelRouteRejectsCancelledOnly(status) == status = "cancelled"

\* if (session.status !== "active") -> 400 "Only active sessions can be cancelled"
CancelRouteRejects(status) == status # "active"

\* the route: Session.findById (404 when missing), its guard, then cancelSession
StartCancel(p, s) ==
  /\ proc[p].op = "idle"
  /\ s \in SessionIds
  /\ IF CancelRouteRejects(sessions[s].status)
       THEN Goto(p, [Idle EXCEPT !.op = "cancel", !.pc = "done", !.cur = s,
                                 !.res = "not-active"])
       ELSE Goto(p, [Idle EXCEPT !.op = "cancel", !.pc = "cancel_read", !.cur = s])
  /\ started < MaxRequests
  /\ started' = started + 1
  /\ UNCHANGED <<now, enrollments, sessions, attendance, emitted>>

\* cancelSession's guard on the re-read session
CancelSessionSkips(status) == status # "active"

\* cancelSession: the re-read and its guard; cancelledAt/expiresAt = new Date()
CancelRead(p) ==
  LET q == proc[p] IN
  /\ q.pc = "cancel_read"
  /\ IF CancelSessionSkips(sessions[q.cur].status)
       THEN Finish(p, "cancel-aborted")
       ELSE Goto(p, [q EXCEPT !.pc = "cancel_save", !.fStatus = "active", !.fExp = now])
  /\ UNCHANGED <<now, enrollments, sessions, attendance, emitted, started>>

\* await fresh.save()
CancelSave(p) ==
  LET q == proc[p] IN
  /\ q.pc = "cancel_save"
  /\ sessions' = [sessions EXCEPT ![q.cur].status = "cancelled",
                                  ![q.cur].expiresAt = q.fExp]
  /\ Goto(p, [q EXCEPT !.pc = "cancel_delete"])
  /\ UNCHANGED <<now, enrollments, attendance, emitted, started>>

\* await Attendance.deleteMany({ session }); then the "session-cancelled" event
CancelDelete(p) ==
  LET q == proc[p] IN
  /\ q.pc = "cancel_delete"
  /\ attendance' = attendance \ RecordsOf(q.cur)
  /\ emitted' = Emit(q.cur, "session-cancelled")
  /\ Finish(p, "cancelled")
  /\ UNCHANGED <<now, enrollments, sessions, started>>

\* --------------------------------------------------- POST /scan/:token
\* The request arrives carrying the primary token of session s.
\* Session.findOne({ status: "active", $or: [{ token }, ...] }): 404 when the
\* session of the token is not active; else the handler holds a copy of it.
StartScan(p, st, s) ==
  /\ proc[p].op = "idle"
  /\ s \in SessionIds
  /\ IF sessions[s].status # "active"
       THEN Goto(p, [Idle EXCEPT !.op = "scan", !.pc = "done", !.cur = s, !.st = st,
                                 !.arrival = now, !.fExp = sessions[s].expiresAt,
                                 !.res = "not-found"])
       ELSE Goto(p, [Idle EXCEPT !.op = "scan", !.pc = "scan_check", !.cur = s, !.st = st,
                                 !.arrival = now, !.fStatus = sessions[s].status,
                                 !.fExp = sessions[s].expiresAt])
  /\ started < MaxRequests
  /\ started' = started + 1
  /\ UNCHANGED <<now, enrollments, sessions, attendance, emitted>>

\* The deadline check left out.
ScanPastDeadlineNever(t, expiresAt) == FALSE

\* if (new Date() > session.expiresAt) -> 400 "Session expired"
ScanPastDeadline(t, expiresAt) == t > expiresAt

\* A scan route that takes a session of any mode.
ScanTypeRejectsNever(type) == FALSE

\* if (session.type !== "QR") -> 400 "This session does not support QR attendance"
ScanTypeRejects(type) == type # "QR"

\* validateStudentForSession: Enrollment.findOne({ course, student })
IsEnrolled(st, c) == \E e \in enrollments : e.student = st /\ e.course = c

\* The checks on the copy, in the order of the handler: status, type,
\* deadline, enrollment.
ScanCheck(p) ==
  LET q == proc[p] IN
  /\ q.pc = "scan_check"
  /\ IF q.fStatus # "active" THEN Finish(p, "no-longer-active")
     ELSE IF ScanTypeRejects(sessions[q.cur].type) THEN Finish(p, "not-qr")
     ELSE IF ScanPastDeadline(now, q.fExp) THEN Finish(p, "session-expired")
     ELSE IF ~ IsEnrolled(q.st, sessions[q.cur].course) THEN Finish(p, "not-enrolled")
     ELSE Goto(p, [q EXCEPT !.pc = "scan_marked"])
  /\ UNCHANGED <<now, enrollments, sessions, attendance, emitted, started>>

\* const alreadyMarked = await Attendance.findOne({ session, student })
ScanMarked(p) ==
  LET q == proc[p] IN
  /\ q.pc = "scan_marked"
  /\ IF RecordsFor(q.cur, q.st) # {}
       THEN Finish(p, "already-marked")
       ELSE Goto(p, [q EXCEPT !.pc = "scan_write"])
  /\ UNCHANGED <<now, enrollments, sessions, attendance, emitted, started>>

PresentRecord(s, st) ==
  [session |-> s, student |-> st, semester |-> sessions[s].semester, status |-> "Present"]

\* await Attendance.create({ ..., semester: session.semester, status: "Present" });
\* a taken index key raises a duplicate-key error (answered 500); else the
\* "qr" event is published.
ScanWrite(p) ==
  LET q == proc[p] IN
  /\ q.pc = "scan_write"
  /\ IF KeyTaken(attendance, q.cur, q.st, sessions[q.cur].semester)
       THEN /\ Finish(p, "error")
            /\ UNCHANGED <<attendance, emitted>>
       ELSE /\ attendance' = attendance \cup {PresentRecord(q.cur, q.st)}
            /\ emitted' = Emit(q.cur, "qr")
            /\ Finish(p, "recorded")
  /\ UNCHANGED <<now, enrollments, sessions, started>>

\* ----------------------------------------------------------- specification
Next ==
  \/ Tick
  \/ \E p \in Procs : Respond(p)
  \/ \E p \in Procs, c \in Courses, type \in SessionTypes, d \in DurationInputs :
       StartCreate(p, c, type, RawLocation(7, 4, 60, 50), d)
  \/ \E p \in Procs : CreatePersist(p)
  \/ \E p \in Procs, s \in 1..MaxSessions : StartEnd(p, s)
  \/ \E p \in Procs : StartSweep(p)
  \/ \E p \in Procs : EndRead(p)
  \/ \E p \in Procs : EndSave(p)
  \/ \E p \in Procs : EndFind(p)
  \/ \E p \in Procs : EndInsert(p)
  \/ \E p \in Procs, s \in 1..MaxSessions : StartCancel(p, s)
  \/ \E p \in Procs : CancelRead(p)
  \/ \E p \in Procs : CancelSave(p)
  \/ \E p \in Procs : CancelDelete(p)
  \/ \E p \in Procs, st \in Students, s \in 1..MaxSessions : StartScan(p, st, s)
  \/ \E p \in Procs : ScanCheck(p)
  \/ \E p \in Procs : ScanMarked(p)
  \/ \E p \in Procs : ScanWrite(p)

Spec == Init /\ [][Next]_vars

\* ===================================================== credentials, position
\* The scan path in full: the token a request presents, the rotation set, and
\* the position check.  Here one unit of `now` is ten seconds, the life of a
\* rotated token, and a session record also has the fields token, validTokens
\* and location.
QrMaxTime == 2
QrMaxRequests == 4

TicksPerMinute == 6
TokenLife == 1

\* uuidv4() at create; crypto.randomBytes(12).toString("hex") at a rotation:
\* the n-th rotated token of a session is RotatedToken(n).
PrimaryToken(s) == [kind |-> "uuid", n |-> s]

RotatedToken(n) == [kind |-> "hex", n |-> n]

Max(a, b) == IF a > b THEN a ELSE b

Clamp(x, lo, hi) == IF x < lo THEN lo ELSE IF x > hi THEN hi ELSE x

\* -------------------------------------------- validateStudentForSession
\* if (session.location?.lat && session.location?.lng): 0 is falsy
GeofenceApplies(loc) == loc.lat # 0 /\ loc.lng # 0

\* The lecturer's threshold used for the student.
AccuracyTooWeakAbove500(accuracy) == accuracy > 500

\* if (accuracy > 300) -> 403 "GPS signal too weak"
AccuracyTooWeak(accuracy) == accuracy > 300

\* if (dist < 5 && accuracy > 30) -> 403 "Fake GPS detected"
FakeZeroDistance(dist, accuracy) == dist < 5 /\ accuracy > 30

\* The tolerance of the radius alone.
AllowedDistanceRadiusOnly(loc, accuracy) == loc.radius

\* session.location.radius + Math.max(accuracy, Number(session.location.accuracy) || 50)
AllowedDistance(loc, accuracy) ==
  loc.radius + Max(accuracy, IF loc.accuracy = 0 THEN 50 ELSE loc.accuracy)

\* The body of the position check, in the order of its throws.
GeoValidate(loc, fix) ==
  IF fix = NoFix THEN "location-required"
  ELSE IF AccuracyTooWeak(fix.accuracy) THEN "gps-too-weak"
  ELSE IF FakeZeroDistance(fix.dist, fix.accuracy) THEN "fake-gps"
  ELSE IF fix.dist > AllowedDistance(loc, fix.accuracy) THEN "outside-zone"
  ELSE "ok"

ValidateLocation(loc, fix) ==
  IF GeofenceApplies(loc) THEN GeoValidate(loc, fix) ELSE "ok"

\* --------------------------------------------------------------- inputs
LocationInputs ==
  {[accuracy |-> 50, lat |-> la, lng |-> ln, radius |-> 60] : la \in {0, 7}, ln \in {0, 4}}
    \cup {NoLocation}

FixInputs == {NoFix, Fix(109, 10), Fix(111, 10), Fix(3, 40)}

\* Registration left s1 enrolled in c1 for its term and s2 not enrolled.
QrRoster == {Row("s1", "c1", "t1")}

\* Tokens a request can present: the primary token of the session, every
\* rotated token the requests of a run can mint, and RotatedToken(0), which
\* never is one.
TokenInputs ==
  {PrimaryToken(1)} \cup {RotatedToken(n) : n \in 0..(QrMaxRequests - 1)}

\* -------------------------------------------------------------- QrInit
QrInit ==
  /\ now = 0
  /\ enrollments = QrRoster
  /\ sessions = << >>
  /\ attendance = {}
  /\ emitted = NoEvent
  /\ proc = [p \in Procs |-> Idle]
  /\ started = 0

QrTick ==
  /\ now < QrMaxTime
  /\ now' = now + 1
  /\ UNCHANGED <<enrollments, sessions, attendance, emitted, proc, started>>

\* ------------------------------- POST /:courseId/create, first QR session
\* Math.min(Math.max(lecturerAccuracy, 10), 120)
NormalizedAccuracy(a) == Clamp(a, 10, 120)

\* Math.min(Math.max(Number(location.radius) || 60, 10), 300)
NormalizedRadius(r) == Clamp(IF r = NaN \/ r = 0 THEN 60 ELSE r, 10, 300)

\* A save that stores the location it is given, whatever the mode.
PersistedLocationAsGiven(type, loc) == loc

\* sessionSchema.pre("save"): if (this.type !== "QR") this.location = undefined
PersistedLocation(type, loc) == IF type # "QR" THEN NoLocation ELSE loc

\* Session.locationLockedAt of a session that was never locked.
NoDate == 0 - 1

\* The create of the course's first session: there is nothing to close.  For
\* a QR session the location check (400, nothing persisted), then
\* Session.create and the "session-created" event; a session of another mode
\* is given no location.  The request keeps what the body held.
QrCreate(p, c, type, loc, duration) ==
  LET safeType == SafeType(type)
      rejection == CreateRejection(type, loc)
      body == [Idle EXCEPT !.op = "create", !.pc = "done", !.ctype = type,
                           !.cdur = duration, !.loc = loc]
      location == IF safeType = "QR"
                    THEN [accuracy |-> NormalizedAccuracy(loc.accuracy),
                          lat |-> loc.lat, lng |-> loc.lng,
                          radius |-> NormalizedRadius(loc.radius)]
                    ELSE NoLocation
  IN
  /\ proc[p].op = "idle"
  /\ sessions = << >>
  /\ started < QrMaxRequests
  /\ started' = started + 1
  /\ IF rejection # "ok"
       THEN /\ Goto(p, [body EXCEPT !.res = rejection])
            /\ UNCHANGED <<sessions, emitted>>
       ELSE /\ sessions' = << [course |-> c, semester |-> CourseSemester(c),
                               status |-> "active",
                               expiresAt |-> now + SafeDuration(duration) * TicksPerMinute,
                               type |-> safeType, token |-> PrimaryToken(1),
                               validTokens |-> {},
                               location |-> PersistedLocation(safeType, location),
                               locationLockedAt |-> NoDate] >>
            /\ emitted' = Emit(1, "session-created")
            /\ Goto(p, [body EXCEPT !.res = "created", !.cur = 1])
  /\ UNCHANGED <<now, enrollments, attendance>>

\* ------------------------------------------------------ POST /scan/:token
\* The lookup of the earlier scan route: "validTokens.token": token, with no
\* look at the token's expiry.
TokenMatchesNoExpiry(sess, tok, t) ==
  \/ sess.token = tok
  \/ \E v \in sess.validTokens : v.token = tok

\* The primary token left out of the lookup.
TokenMatchesRotatedOnly(sess, tok, t) ==
  \E v \in sess.validTokens : v.token = tok /\ v.expiresAt > t

\* $or: [{ token }, { validTokens: { $elemMatch: { token, expiresAt: { $gt: new Date() } } } }]
TokenMatches(sess, tok, t) ==
  \/ sess.token = tok
  \/ \E v \in sess.validTokens : v.token = tok /\ v.expiresAt > t

\* Session.findOne({ status: "active", $or: [...] })
SessionsOfToken(tok) ==
  {s \in SessionIds : sessions[s].status = "active" /\ TokenMatches(sessions[s], tok, now)}

\* The lookup: 404 "Invalid or expired QR code", or the handler holds a copy
\* of the session found.
QrStartScan(p, st, tok, fix) ==
  LET found == SessionsOfToken(tok) IN
  /\ proc[p].op = "idle"
  /\ sessions # << >>
  /\ started < QrMaxRequests
  /\ started' = started + 1
  /\ IF found = {}
       THEN Goto(p, [Idle EXCEPT !.op = "scan", !.pc = "done", !.st = st, !.tok = tok,
                                 !.res = "not-found"])
       ELSE Goto(p, [Idle EXCEPT !.op = "scan", !.pc = "scan_check", !.cur = Min(found),
                                 !.st = st, !.tok = tok, !.fix = fix,
                                 !.fStatus = sessions[Min(found)].status,
                                 !.fExp = sessions[Min(found)].expiresAt])
  /\ UNCHANGED <<now, enrollments, sessions, attendance, emitted>>

\* The checks on the copy (status, type, deadline), then
\* validateStudentForSession: the enrollment, then the position.
QrScanCheck(p) ==
  LET q == proc[p]
      verdict == ValidateLocation(sessions[q.cur].location, q.fix)
  IN
  /\ q.op = "scan"
  /\ q.pc = "scan_check"
  /\ IF q.fStatus # "active" THEN Finish(p, "no-longer-active")
     ELSE IF ScanTypeRejects(sessions[q.cur].type) THEN Finish(p, "not-qr")
     ELSE IF ScanPastDeadline(now, q.fExp) THEN Finish(p, "session-expired")
     ELSE IF ~ IsEnrolled(q.st, sessions[q.cur].course) THEN Finish(p, "not-enrolled")
     ELSE IF verdict # "ok" THEN Finish(p, verdict)
     ELSE Goto(p, [q EXCEPT !.pc = "scan_marked"])
  /\ UNCHANGED <<now, enrollments, sessions, attendance, emitted, started>>

\* A rotation after every recorded scan.
RotatesAfterScanAlways(sess, tok) == TRUE

\* if (session.token === token) await rotateQrToken(session)
RotatesAfterScan(sess, tok) == sess.token = tok

\* await Attendance.create(...), the "qr" event, and for the primary token
\* the handler goes on to rotateQrToken
QrScanWrite(p) ==
  LET q == proc[p] IN
  /\ q.pc = "scan_write"
  /\ IF KeyTaken(attendance, q.cur, q.st, sessions[q.cur].semester)
       THEN /\ Finish(p, "error")
            /\ UNCHANGED <<attendance, emitted>>
       ELSE /\ attendance' = attendance \cup {PresentRecord(q.cur, q.st)}
            /\ emitted' = Emit(q.cur, "qr")
            /\ IF RotatesAfterScan(sessions[q.cur], q.tok)
                 THEN Goto(p, [q EXCEPT !.pc = "rotate"])
                 ELSE Finish(p, "recorded")
  /\ UNCHANGED <<now, enrollments, sessions, started>>

\* ------------------------------------------------------- rotateQrToken
\* The rotation keeping what it finds, as Session.addNewToken does.
RotatedSetAccumulating(sess, tok, t) ==
  {v \in sess.validTokens : v.expiresAt > t} \cup {[token |-> tok, expiresAt |-> t + TokenLife]}

\* session.validTokens = [{ token: newToken, expiresAt: Date.now() + 10 s }]
RotatedSet(sess, tok, t) == {[token |-> tok, expiresAt |-> t + TokenLife]}

\* The number of the rotated token minted last for session s (the set is
\* replaced, never emptied, so it holds the latest); the next token is new.
Minted(s) ==
  LET ns == {v.token.n : v \in sessions[s].validTokens}
  IN  IF ns = {} THEN 0 ELSE CHOOSE n \in ns : \A m \in ns : m <= n

\* A save that writes the whole copy back, the status and deadline it read
\* included.
SavedByRotationWholeCopy(stored, q, set) ==
  [stored EXCEPT !.validTokens = set, !.status = q.fStatus, !.expiresAt = q.fExp]

\* await session.save() on the handler's copy: of the document's paths only
\* validTokens was modified, and only it is written.
SavedByRotation(stored, q, set) == [stored EXCEPT !.validTokens = set]

\* The save of the rotation, then the response of the scan (201) or of the
\* refresh.
RotateSave(p) ==
  LET q == proc[p]
      tok == RotatedToken(Minted(q.cur) + 1)
  IN
  /\ q.pc = "rotate"
  /\ sessions' = [sessions EXCEPT ![q.cur] =
                    SavedByRotation(sessions[q.cur], q, RotatedSet(sessions[q.cur], tok, now))]
  /\ Finish(p, IF q.op = "scan" THEN "recorded" ELSE "refreshed")
  /\ UNCHANGED <<now, enrollments, attendance, emitted, started>>

\* --------------------------------------------- POST /:sessionId/refresh
\* Session.findById (404 when missing); only status "expired" is turned away,
\* then the type; then rotateQrToken.
StartRefresh(p, s) ==
  /\ proc[p].op = "idle"
  /\ s \in SessionIds
  /\ started < QrMaxRequests
  /\ started' = started + 1
  /\ IF sessions[s].status = "expired"
       THEN Goto(p, [Idle EXCEPT !.op = "refresh", !.pc = "done", !.cur = s,
                                 !.res = "session-expired"])
     ELSE IF sessions[s].type # "QR"
       THEN Goto(p, [Idle EXCEPT !.op = "refresh", !.pc = "done", !.cur = s, !.res = "not-qr"])
     ELSE Goto(p, [Idle EXCEPT !.op = "refresh", !.pc = "rotate", !.cur = s,
                               !.fStatus = sessions[s].status,
                               !.fExp = sessions[s].expiresAt])
  /\ UNCHANGED <<now, enrollments, sessions, attendance, emitted>>

QrNext ==
  \/ QrTick
  \/ \E p \in Procs : Respond(p)
  \/ \E p \in Procs, c \in Courses, type \in SessionTypes, loc \in LocationInputs,
          d \in DurationInputs :
       QrCreate(p, c, type, loc, d)
  \/ \E p \in Procs, st \in Students, tok \in TokenInputs, fix \in FixInputs :
       QrStartScan(p, st, tok, fix)
  \/ \E p \in Procs : QrScanCheck(p)
  \/ \E p \in Procs : ScanMarked(p)
  \/ \E p \in Procs : QrScanWrite(p)
  \/ \E p \in Procs : RotateSave(p)
  \/ \E p \in Procs, s \in 1..MaxSessions : StartRefresh(p, s)

QrSpec == QrInit /\ [][QrNext]_vars

\* ------------------------------------------------ the position check alone
\* A scan of the enrolled student s1 has found its session by the primary
\* token and is about to be validated: every session location create can
\* store (radius and accuracy normalized) with every fix of the grid.
GeoLocations ==
  {[accuracy |-> a, lat |-> la, lng |-> ln, radius |-> 60] :
     la \in {0, 7}, ln \in {0, 4}, a \in {50, 120}}

GeoDistances == {0, 4, 5, 59, 109, 110, 111, 180, 181, 360, 361}

GeoAccuracies == {10, 30, 31, 50, 51, 120, 121, 300, 301}

GeoFixes == {Fix(d, a) : d \in GeoDistances, a \in GeoAccuracies} \cup {NoFix}

GeoInit ==
  /\ now = 0
  /\ enrollments = QrRoster
  /\ \E loc \in GeoLocations :
       sessions = << [course |-> "c1", semester |-> CourseSemester("c1"), status |-> "active",
                      expiresAt |-> SafeDuration(1) * TicksPerMinute, type |-> "QR",
                      token |-> PrimaryToken(1), validTokens |-> {}, location |-> loc] >>
  /\ attendance = {}
  /\ emitted = [session |-> 1, source |-> "session-created", seq |-> 1]
  /\ \E fix \in GeoFixes :
       proc = [p \in Procs |->
                 IF p = "p1"
                   THEN [Idle EXCEPT !.op = "scan", !.pc = "scan_check", !.cur = 1,
                                     !.st = "s1", !.tok = PrimaryToken(1), !.fix = fix,
                                     !.fStatus = "active",
                                     !.fExp = SafeDuration(1) * TicksPerMinute]
                   ELSE Idle]
  /\ started = 2

GeoNext ==
  \/ \E p \in Procs : QrScanCheck(p)
  \/ \E p \in Procs : ScanMarked(p)
  \/ \E p \in Procs : QrScanWrite(p)
  \/ \E p \in Procs : RotateSave(p)
  \/ \E p \in Procs : Respond(p)

GeoSpec == GeoInit /\ [][GeoNext]_vars

\* res.status(...) of each outcome of a scan
HttpStatus(res) ==
  CASE res = "recorded" -> 201
    [] res = "already-marked" -> 409
    [] res = "not-found" -> 404
    [] res \in {"no-longer-active", "not-qr", "session-expired", "location-required"} -> 400
    [] res \in {"not-enrolled", "gps-too-weak", "fake-gps", "outside-zone"} -> 403
    [] OTHER -> 500

\* ------------------------------------------- POST /:sessionId/location
\* session.location of a loaded document that stores none: the schema's
\* defaults for radius and accuracy, no lat and no lng.
DefaultLocation == [accuracy |-> 50, lat |-> NaN, lng |-> NaN, radius |-> 60]

LoadedLocation(doc) ==
  IF doc.location = NoLocation THEN DefaultLocation ELSE doc.location

\* The 400s on the body, then Session.findById and the 404 unless the session
\* is active; then the handler sets lat, lng and the clamped accuracy on its
\* copy.
StartLocation(p, s, lat, lng, accuracy) ==
  LET body == [Idle EXCEPT !.op = "location", !.pc = "done", !.cur = s] IN
  /\ proc[p].op = "idle"
  /\ started < QrMaxRequests
  /\ started' = started + 1
  /\ IF ~ IsFinite(lat) \/ ~ IsFinite(lng) \/ ~ IsFinite(accuracy)
       THEN Goto(p, [body EXCEPT !.res = "invalid-input"])
     ELSE IF accuracy > 500
       THEN Goto(p, [body EXCEPT !.res = "gps-too-weak"])
     ELSE IF s \notin SessionIds
       THEN Goto(p, [body EXCEPT !.res = "not-found"])
     ELSE IF sessions[s].status # "active"
       THEN Goto(p, [body EXCEPT !.res = "not-found"])
     ELSE Goto(p, [body EXCEPT !.pc = "loc_save",
                               !.floc = LoadedLocation(sessions[s]),
                               !.loc = [LoadedLocation(sessions[s]) EXCEPT
                                          !.lat = lat, !.lng = lng,
                                          !.accuracy = NormalizedAccuracy(accuracy)]])
  /\ UNCHANGED <<now, enrollments, sessions, attendance, emitted>>

\* A schema without the immutability hook.
LocationImmutableNever(lockedAt, modified) == FALSE

\* sessionSchema.pre("save"): locationLockedAt && !isNew && a location path
\* isModified -> Error("Session location is immutable")
LocationImmutable(lockedAt, modified) == lockedAt # NoDate /\ modified

\* await session.save(): the pre-save hooks, then the write of the modified
\* paths.  A session that is not QR loses its location; a locked session
\* with a changed location path fails the save, which the route does not
\* catch.
LocationSave(p) ==
  LET q == proc[p]
      doc == sessions[q.cur]
      stored == LoadedLocation(doc)
      written == [accuracy |-> IF q.loc.accuracy # q.floc.accuracy
                                 THEN q.loc.accuracy ELSE stored.accuracy,
                  lat |-> IF q.loc.lat # q.floc.lat THEN q.loc.lat ELSE stored.lat,
                  lng |-> IF q.loc.lng # q.floc.lng THEN q.loc.lng ELSE stored.lng,
                  radius |-> stored.radius]
  IN
  /\ q.pc = "loc_save"
  /\ IF LocationImmutable(doc.locationLockedAt, doc.type # "QR" \/ q.loc # q.floc)
       THEN /\ Finish(p, "error")
            /\ UNCHANGED sessions
       ELSE /\ sessions' = [sessions EXCEPT
                              ![q.cur].location = PersistedLocation(doc.type, written)]
            /\ Finish(p, "updated")
  /\ UNCHANGED <<now, enrollments, attendance, emitted, started>>

\* ------------------------------- POST /:courseId/mark[/:studentId]
\* course.students: the students the course document lists.
CourseStudents(c) == {"s1"}

\* status || "Present"
MarkStatus(status) == IF status = "" THEN "Present" ELSE status

\* The document the upsert leaves for the student and the day: it names no
\* session and no semester.
ManualRecord(st, status) ==
  [session |-> 0, student |-> st, semester |-> "none", status |-> MarkStatus(status)]

\* Attendance.findOneAndUpdate({ course, student, dayKey }, { status, ... },
\* { upsert: true }): the day's document of the student is replaced or made.
Upsert(att, st, status) ==
  {a \in att : ~ (a.session = 0 /\ a.student = st)} \cup {ManualRecord(st, status)}

\* POST /:courseId/mark/:studentId: the course, the teacher, the student in
\* course.students (400 otherwise), then the upsert.  No session is read.
ManualMark(p, c, st, status) ==
  LET body == [Idle EXCEPT !.op = "mark", !.pc = "done", !.st = st, !.course = c] IN
  /\ proc[p].op = "idle"
  /\ started < QrMaxRequests
  /\ started' = started + 1
  /\ IF st \notin CourseStudents(c)
       THEN /\ Goto(p, [body EXCEPT !.res = "not-enrolled"])
            /\ UNCHANGED attendance
       ELSE /\ attendance' = Upsert(attendance, st, status)
            /\ Goto(p, [body EXCEPT !.res = "marked"])
  /\ UNCHANGED <<now, enrollments, sessions, emitted>>

\* POST /:courseId/mark: the records of students the course does not list
\* are skipped, the others are upserted one await at a time.
StartBulk(p, c, records) ==
  LET listed == {r \in records : r.student \in CourseStudents(c)}
      body == [Idle EXCEPT !.op = "bulk", !.course = c]
  IN
  /\ proc[p].op = "idle"
  /\ started < QrMaxRequests
  /\ started' = started + 1
  /\ IF listed = {}
       THEN Goto(p, [body EXCEPT !.pc = "done", !.res = "bulk-saved"])
       ELSE Goto(p, [body EXCEPT !.pc = "bulk_upsert", !.absent = listed])
  /\ UNCHANGED <<now, enrollments, sessions, attendance, emitted>>

BulkUpsert(p) ==
  LET q == proc[p] IN
  /\ q.pc = "bulk_upsert"
  /\ \E r \in q.absent :
       /\ attendance' = Upsert(attendance, r.student, r.status)
       /\ IF q.absent = {r}
            THEN Goto(p, [Idle EXCEPT !.op = "bulk", !.pc = "done", !.course = q.course,
                                      !.res = "bulk-saved"])
            ELSE Goto(p, [q EXCEPT !.absent = q.absent \ {r}])
  /\ UNCHANGED <<now, enrollments, sessions, emitted, started>>

\* ------------------------------------------------- the teacher's requests
\* What a teacher sends for a course that has no session yet: a create of any
\* mode with any body, location updates, and manual marks.
FormTypes == {"QR", "MANUAL", "ROLLCALL", "LAB"}

RawLocations ==
  {NoLocation, RawLocation(7, 4, 60, 50), RawLocation(NaN, 4, 60, 50),
   RawLocation(7, NaN, 60, 50), RawLocation(7, 4, 60, NaN), RawLocation(7, 4, NaN, 50)}

RawDurations == {NaN, 0 - 5, 0, 1, 45, 180, 181, 100000}

RawLatitudes == {NaN, 7, 8}

RawAccuracies == {NaN, 5, 50, 501}

MarkInputs == {"", "Absent"}

BulkInputs ==
  { {}, {[student |-> "s2", status |-> "Present"]},
    {[student |-> "s1", status |-> "Absent"], [student |-> "s2", status |-> ""]} }

FormNext ==
  \/ \E p \in Procs : Respond(p)
  \/ \E p \in Procs, c \in Courses, type \in FormTypes, loc \in RawLocations,
        d \in RawDurations :
       QrCreate(p, c, type, loc, d)
  \/ \E p \in Procs, s \in 1..MaxSessions, lat \in RawLatitudes, accuracy \in RawAccuracies :
       StartLocation(p, s, lat, 4, accuracy)
  \/ \E p \in Procs : LocationSave(p)
  \/ \E p \in Procs, c \in Courses, st \in Students, status \in MarkInputs :
       ManualMark(p, c, st, status)
  \/ \E p \in Procs, c \in Courses, records \in BulkInputs : StartBulk(p, c, records)
  \/ \E p \in Procs : BulkUpsert(p)

FormSpec == QrInit /\ [][FormNext]_vars

\* --------------------------------------------- a session with a locked place
\* A stored Active QR session whose document has locationLockedAt set, beside
\* one that has not; no route of the server sets the field, the schema and
\* its hook provide it for documents written otherwise.
LockInit ==
  /\ now = 0
  /\ enrollments = QrRoster
  /\ \E lockedAt \in {NoDate, 0} :
       sessions = << [course |-> "c1", semester |-> CourseSemester("c1"), status |-> "active",
                      expiresAt |-> SafeDuration(1) * TicksPerMinute, type |-> "QR",
                      token |-> PrimaryToken(1), validTokens |-> {},
                      location |-> RawLocation(7, 4, 60, 50),
                      locationLockedAt |-> lockedAt] >>
  /\ attendance = {}
  /\ emitted = NoEvent
  /\ proc = [p \in Procs |-> Idle]
  /\ started = 0

LockNext ==
  \/ \E p \in Procs : Respond(p)
  \/ \E p \in Procs, s \in 1..MaxSessions, lat \in RawLatitudes, accuracy \in RawAccuracies :
       StartLocation(p, s, lat, 4, accuracy)
  \/ \E p \in Procs : LocationSave(p)
  \/ \E p \in Procs, s \in 1..MaxSessions : StartRefresh(p, s)
  \/ \E p \in Procs : RotateSave(p)

LockSpec == LockInit /\ [][LockNext]_vars

\* ------------------------------------------------- the lookup of a scan
\* Scans against a stored QR session of any status: Active, Expired (closed,
\* with the Absent record of s1) or Cancelled (no records), whose rotation
\* set is empty or holds the rotated token minted at time 0.
TokenInit ==
  /\ now = 0
  /\ enrollments = QrRoster
  /\ \E status \in {"active", "expired", "cancelled"},
        rotated \in {{}, {[token |-> RotatedToken(1), expiresAt |-> TokenLife]}} :
       /\ sessions = << [course |-> "c1", semester |-> CourseSemester("c1"),
                         status |-> status,
                         expiresAt |-> IF status = "active"
                                         THEN SafeDuration(1) * TicksPerMinute ELSE 0,
                         type |-> "QR", token |-> PrimaryToken(1), validTokens |-> rotated,
                         location |-> RawLocation(7, 4, 60, 50),
                         locationLockedAt |-> NoDate] >>
       /\ attendance = IF status = "expired"
                         THEN {[session |-> 1, student |-> "s1", semester |-> "t1",
                                status |-> "Absent"]}
                         ELSE {}
  /\ emitted = NoEvent
  /\ proc = [p \in Procs |-> Idle]
  /\ started = 2

TokenNext ==
  \/ QrTick
  \/ \E p \in Procs, st \in Students, tok \in TokenInputs, fix \in FixInputs :
       QrStartScan(p, st, tok, fix)
  \/ \E p \in Procs : QrScanCheck(p)
  \/ \E p \in Procs : ScanMarked(p)
  \/ \E p \in Procs : QrScanWrite(p)
  \/ \E p \in Procs : RotateSave(p)
  \/ \E p \in Procs : Respond(p)

TokenSpec == TokenInit /\ [][TokenNext]_vars

\* ------------------------------------------------ closes of a loaded store
\* The close path over a store that earlier requests left behind: either two
\* Active sessions of the course, both past their deadline (two creates that
\* interleaved), or one Expired session whose back-fill stopped at a duplicate
\* key (a scan of s1 landed between the close's find and its insert, so s2
\* has no record).  Sweeps and POST /end requests run against it.
StoredSession(status) ==
  [course |-> "c1", semester |-> CourseSemester("c1"), status |-> status,
   expiresAt |-> 0, type |-> "QR"]

SweepInit ==
  /\ now = 0
  /\ enrollments = {Row("s1", "c1", "t1"), Row("s2", "c1", "t1")}
  /\ \/ /\ sessions = << StoredSession("active"), StoredSession("active") >>
        /\ attendance = {}
     \/ /\ sessions = << StoredSession("expired") >>
        /\ attendance = {[session |-> 1, student |-> "s1", semester |-> "t1",
                          status |-> "Present"]}
  /\ emitted = NoEvent
  /\ proc = [p \in Procs |-> Idle]
  /\ started = 0

SweepNext ==
  \/ \E p \in Procs : StartSweep(p)
  \/ \E p \in Procs, s \in 1..MaxSessions : StartEnd(p, s)
  \/ \E p \in Procs : EndRead(p)
  \/ \E p \in Procs : EndSave(p)
  \/ \E p \in Procs : EndFind(p)
  \/ \E p \in Procs : EndInsert(p)
  \/ \E p \in Procs : Respond(p)

SweepSpec == SweepInit /\ [][SweepNext]_vars

\* ------------------------------------- creates over an Active session
\* The course has an Active session and both students are enrolled; creates
\* with a usable location, with none and with one whose accuracy is not a
\* number arrive, beside POST /end requests.
RecreateLocations ==
  {RawLocation(7, 4, 60, 50), NoLocation, RawLocation(7, 4, 60, NaN)}

RecreateInit ==
  /\ now = 0
  /\ enrollments = {Row("s1", "c1", "t1"), Row("s2", "c1", "t1")}
  /\ sessions = << StoredSession("active") >>
  /\ attendance = {}
  /\ emitted = NoEvent
  /\ proc = [p \in Procs |-> Idle]
  /\ started = 0

RecreateNext ==
  \/ \E p \in Procs, c \in Courses, type \in SessionTypes, loc \in RecreateLocations,
        d \in DurationInputs :
       StartCreate(p, c, type, loc, d)
  \/ \E p \in Procs : CreatePersist(p)
  \/ \E p \in Procs, s \in 1..MaxSessions : StartEnd(p, s)
  \/ \E p \in Procs : EndRead(p)
  \/ \E p \in Procs : EndSave(p)
  \/ \E p \in Procs : EndFind(p)
  \/ \E p \in Procs : EndInsert(p)
  \/ \E p \in Procs : Respond(p)

RecreateSpec == RecreateInit /\ [][RecreateNext]_vars

\* ------------------------------------------------ GET /active/:courseId
\* The query looking at the status alone.
ReportedActiveByStatus(s, c) == sessions[s].course = c /\ sessions[s].status = "active"

\* Session.findOne({ course, status: "active", expiresAt: { $gt: new Date() } })
ReportedActive(s, c) ==
  sessions[s].course = c /\ sessions[s].status = "active" /\ sessions[s].expiresAt > now

\* { active: false }, or { active: true, session }
GetActive(p, c) ==
  LET found == {s \in SessionIds : ReportedActive(s, c)}
      body == [Idle EXCEPT !.op = "active", !.pc = "done", !.course = c]
  IN
  /\ proc[p].op = "idle"
  /\ started < QrMaxRequests
  /\ started' = started + 1
  /\ IF found = {}
       THEN Goto(p, [body EXCEPT !.res = "not-active"])
       ELSE Goto(p, [body EXCEPT !.res = "active", !.cur = Min(found)])
  /\ UNCHANGED <<now, enrollments, sessions, attendance, emitted>>

\* --------------------------------------------- requests on a stored session
\* A stored session of any mode and status, its deadline one tick ahead while
\* it is Active; every session has a primary token, only a QR session a
\* location.  Scans, refreshes, GET /active, closes and cancels run against
\* it; the create that made it is counted in `started`.
StoredModes == {"QR", "MANUAL", "ROLLCALL"}

StoredInit ==
  /\ now = 0
  /\ enrollments = QrRoster
  /\ \E type \in StoredModes, status \in {"active", "expired", "cancelled"} :
       /\ sessions = << [course |-> "c1", semester |-> CourseSemester("c1"),
                         status |-> status,
                         expiresAt |-> IF status = "active" THEN 1 ELSE 0,
                         type |-> type, token |-> PrimaryToken(1), validTokens |-> {},
                         location |-> PersistedLocation(type, RawLocation(7, 4, 60, 50)),
                         locationLockedAt |-> NoDate] >>
       /\ attendance = IF status = "expired"
                         THEN {[session |-> 1, student |-> "s1", semester |-> "t1",
                                status |-> "Absent"]}
                         ELSE {}
  /\ emitted = NoEvent
  /\ proc = [p \in Procs |-> Idle]
  /\ started = 1

StoredNext ==
  \/ QrTick
  \/ \E p \in Procs : Respond(p)
  \/ \E p \in Procs, st \in Students, tok \in TokenInputs :
       QrStartScan(p, st, tok, Fix(109, 10))
  \/ \E p \in Procs : QrScanCheck(p)
  \/ \E p \in Procs : ScanMarked(p)
  \/ \E p \in Procs : QrScanWrite(p)
  \/ \E p \in Procs : RotateSave(p)
  \/ \E p \in Procs, s \in 1..MaxSessions : StartRefresh(p, s)
  \/ \E p \in Procs, c \in Courses : GetActive(p, c)
  \/ \E p \in Procs, s \in 1..MaxSessions : StartEnd(p, s)
  \/ \E p \in Procs : EndRead(p)
  \/ \E p \in Procs : EndSave(p)
  \/ \E p \in Procs : EndFind(p)
  \/ \E p \in Procs : EndInsert(p)
  \/ \E p \in Procs, s \in 1..MaxSessions : StartCancel(p, s)
  \/ \E p \in Procs : CancelRead(p)
  \/ \E p \in Procs : CancelSave(p)
  \/ \E p \in Procs : CancelDelete(p)

StoredSpec == StoredInit /\ [][StoredNext]_vars

\* ================================================================ claims
CloseOps == {"end", "create", "sweep"}

\* A close of session s is between its re-read and its return.
ClosingInProgress(s) ==
  \E p \in Procs : proc[p].cur = s /\ proc[p].pc \in {"end_save", "end_find", "end_insert"}

\* A cancel of session s is between its re-read and its return.
CancelInProgress(s) ==
  \E p \in Procs : proc[p].cur = s /\ proc[p].pc \in {"cancel_save", "cancel_delete"}

\* Students with an enrollment row for course c in semester sem.
EnrolledIn(c, sem) == {e.student : e \in {r \in enrollments : r.course = c /\ r.semester = sem}}

\* C1: in every reachable state every course has at most one Active session.
C1_AtMostOneActive ==
  \A c \in Courses : Cardinality(ActiveSessionsOf(c)) <= 1

\* C2: session status is monotone: a persisted status Expired or Cancelled
\* never changes again.
C2_StatusMonotone ==
  [][\A s \in SessionIds :
       sessions[s].status \in {"expired", "cancelled"}
         => sessions'[s].status = sessions[s].status]_vars

\* C3: once a session is Expired and its close has completed, every student
\* enrolled in the session's course and term has exactly one record for it,
\* and that record is Present or Absent.
C3_ReconciliationComplete ==
  \A s \in SessionIds :
    (sessions[s].status = "expired" /\ ~ ClosingInProgress(s))
      => \A st \in EnrolledIn(sessions[s].course, sessions[s].semester) :
           /\ Cardinality(RecordsFor(s, st)) = 1
           /\ \A a \in RecordsFor(s, st) : a.status \in {"Present", "Absent"}

\* C4: a session that is Cancelled and whose cancel has finished has no
\* attendance record at all.
C4_CancelledHasNoRecords ==
  \A s \in SessionIds :
    (sessions[s].status = "cancelled" /\ ~ CancelInProgress(s)) => RecordsOf(s) = {}

\* C5: a close whose re-read found the session already non-Active is a no-op:
\* none of its steps changes the sessions, the records or the notifications.
C5_CloseOfNonActiveIsNoOp ==
  [][\A p \in Procs :
       (/\ proc[p].pc \in {"end_save", "end_find", "end_insert"}
        /\ proc[p].fStatus # "active"
        /\ proc'[p] # proc[p])
         => (sessions' = sessions /\ attendance' = attendance /\ emitted' = emitted)]_vars

\* C6: closes of one session that interleave do not fail with a uniqueness
\* error: a close of a session on which no scan recorded anything never ends
\* in a duplicate-key error.
C6_InterleavedClosesDoNotFail ==
  \A p \in Procs :
    (/\ proc[p].op \in CloseOps
     /\ proc[p].pc = "done"
     /\ proc[p].res = "error")
      => \E a \in RecordsOf(proc[p].cur) : a.status = "Present"

\* C7: in every reachable state there is at most one record per
\* (session, student).
C7_OneRecordPerSessionStudent ==
  \A s \in SessionIds, st \in Students : Cardinality(RecordsFor(s, st)) <= 1

\* C8: of a close and a cancel that race exactly one takes effect: the records
\* of an Expired session are never deleted, and no Absent record is ever
\* back-filled into a Cancelled session.
C8_CloseXorCancel ==
  [][\A s \in SessionIds :
       /\ sessions[s].status = "expired" => RecordsOf(s) \subseteq attendance'
       /\ sessions[s].status = "cancelled"
            => \A a \in attendance' \ attendance :
                 ~ (a.session = s /\ a.status = "Absent")]_vars

\* C9: a scan writes its Present record only while the session's persisted
\* status is Active.
C9_ScanWritesOnlyWhileActive ==
  [][\A a \in attendance' \ attendance :
       a.status = "Present" => sessions[a.session].status = "active"]_vars

\* A scan that arrived after the deadline of the session of its token.
LateScan(p) == proc[p].op = "scan" /\ proc[p].arrival > proc[p].fExp

\* C10: a scan that arrives after the session's deadline never gets past the
\* handler's checks to the record lookup or the record write, and it is
\* answered with a rejection, also while the session is still Active.
C10_LateScanRejected ==
  \A p \in Procs :
    LateScan(p) =>
      /\ proc[p].pc \in {"scan_check", "done"}
      /\ proc[p].pc = "done" =>
           proc[p].res \in {"not-found", "no-longer-active", "not-qr", "session-expired"}

\* C10 witness: a late scan was answered "Session expired" while the session
\* is still persisted Active (no sweep has closed it) and holds no record of
\* the student.
C10_Witness ==
  \E p \in Procs :
    /\ LateScan(p)
    /\ proc[p].pc = "done"
    /\ proc[p].res = "session-expired"
    /\ sessions[proc[p].cur].status = "active"
    /\ RecordsFor(proc[p].cur, proc[p].st) = {}

\* The back-fill of a close is writing: the step is an insert of its batch.
BackfillStep(p) == proc[p].pc = "end_insert" /\ proc'[p] # proc[p]

\* C11: a back-fill step leaves every existing record as it is and adds only
\* Absent records of its own session, never one for a student who holds a
\* Present record for that session: who scanned stays Present, and only that.
C11_BackfillOnlyAddsForUnmarked ==
  [][\A p \in Procs :
       BackfillStep(p) =>
         /\ attendance \subseteq attendance'
         /\ \A a \in attendance' \ attendance :
              /\ a.status = "Absent"
              /\ a.session = proc[p].cur
              /\ \A b \in RecordsFor(a.session, a.student) : b.status # "Present"]_vars

\* The create in slot p, having closed the session it found Active, persists
\* its new session in this step.
PersistAfterForceClose(p) ==
  /\ proc[p].pc = "create_persist"
  /\ proc[p].cur # 0
  /\ Len(sessions') = Len(sessions) + 1

\* C12: when a create that found an Active session persists its new session,
\* the new session is the only Active one of the course, and the session found
\* is Expired and holds a record for every student enrolled in its course and
\* term.
C12_CreateAfterForceClose ==
  [][\A p \in Procs :
       PersistAfterForceClose(p) =>
         LET prev == proc[p].cur
             c == proc[p].course
         IN  /\ {s \in 1..Len(sessions') : sessions'[s].course = c /\ sessions'[s].status = "active"}
                  = {Len(sessions')}
             /\ sessions'[prev].status = "expired"
             /\ \A st \in EnrolledIn(c, sessions[prev].semester) :
                  \E a \in attendance' : a.session = prev /\ a.student = st]_vars

\* C13: a scan of a student with no enrollment row for the session's course in
\* the session's term writes nothing: every Present record belongs to a
\* student enrolled in the course of its session for the term of its session.
C13_PresentOnlyForEnrolledInTerm ==
  \A a \in attendance :
    a.status = "Present"
      => a.student \in EnrolledIn(sessions[a.session].course, sessions[a.session].semester)

\* C20: a cancel request that finds the session Expired or Cancelled is
\* answered with the rejection and nothing changes: no session, no record (the
\* records of an Expired session stay) and no notification; and a cancel whose
\* re-read in cancelSession finds the session no longer Active changes nothing
\* either.
C20_CancelOfNonActiveRejected ==
  [][\A p \in Procs :
       /\ (/\ proc[p].op = "idle"
           /\ proc'[p].op = "cancel"
           /\ sessions[proc'[p].cur].status # "active")
            => /\ proc'[p].pc = "done"
               /\ proc'[p].res = "not-active"
               /\ sessions' = sessions /\ attendance' = attendance /\ emitted' = emitted
       /\ (/\ proc[p].op = "cancel"
           /\ proc'[p] # proc[p]
           /\ \/ proc[p].res = "not-active"
              \/ proc[p].pc = "cancel_read" /\ sessions[proc[p].cur].status # "active")
            => sessions' = sessions /\ attendance' = attendance /\ emitted' = emitted]_vars

\* C20 witness: a cancel of an Expired session that holds records was
\* rejected, and the records are there.
C20_Witness ==
  \E p \in Procs :
    /\ proc[p].op = "cancel"
    /\ proc[p].pc = "done"
    /\ proc[p].res = "not-active"
    /\ sessions[proc[p].cur].status = "expired"
    /\ RecordsOf(proc[p].cur) # {}

\* The scan in slot p is validated in this step: it passed the checks on its
\* copy and is enrolled, so the step's outcome is that of the position check.
ValidationStep(p) ==
  /\ proc[p].op = "scan"
  /\ proc[p].pc = "scan_check"
  /\ proc'[p] # proc[p]
  /\ proc'[p].res \notin {"no-longer-active", "not-qr", "session-expired", "not-enrolled"}

PositionRejections == {"location-required", "gps-too-weak", "fake-gps", "outside-zone"}

\* The reference tolerance: radius + max(student accuracy, session accuracy).
WithinTolerance(loc, fix) ==
  /\ fix # NoFix
  /\ fix.dist <= loc.radius + Max(fix.accuracy, loc.accuracy)

\* C14: whatever the anchor of a QR session (a coordinate may be 0), a scan
\* gets past the validation only with a fix within the tolerance, and with
\* radius 60 and lecturer accuracy 50 a fix at 111 m with accuracy 10 m is
\* rejected as outside the zone; so no Present record is written for a fix
\* outside the tolerance.
C14_GeofenceForEveryAnchor ==
  [][\A p \in Procs :
       /\ (ValidationStep(p) /\ proc'[p].pc = "scan_marked")
            => WithinTolerance(sessions[proc[p].cur].location, proc[p].fix)
       /\ (/\ ValidationStep(p)
           /\ sessions[proc[p].cur].location.radius = 60
           /\ sessions[proc[p].cur].location.accuracy = 50
           /\ proc[p].fix = Fix(111, 10))
            => proc'[p].res = "outside-zone"
       /\ (proc[p].pc = "scan_write" /\ attendance' # attendance)
            => WithinTolerance(sessions[proc[p].cur].location, proc[p].fix)]_vars

C17_RotationSetSingle ==
  [][\A s \in SessionIds :
       LET old == sessions[s].validTokens
           new == sessions'[s].validTokens
       IN  /\ Cardinality(new) <= 1
           /\ new # old
                => /\ \E v \in new : new = {v} /\ v.token \notin {w.token : w \in old}
                   /\ \A w \in old : ~ TokenMatches(sessions'[s], w.token, now')]_vars

\* C17 witness: the session has rotated twice; the set holds the second token
\* alone.
C17_Witness ==
  \E s \in SessionIds : sessions[s].validTokens # {} /\ Minted(s) = 2

\* C18: in every reachable state the lookup of a scan finds an Active session
\* by its primary token, which is still the token minted at create, however
\* often the session has rotated.
C18_PrimaryTokenAccepted ==
  \A s \in SessionIds :
    sessions[s].status = "active"
      => /\ sessions[s].token = PrimaryToken(s)
         /\ s \in SessionsOfToken(PrimaryToken(s))

\* C18 witness: after a rotation whose token has expired, a scan was found its
\* session by the primary token.
C18_Witness ==
  \E p \in Procs :
    /\ proc[p].op = "scan"
    /\ proc[p].pc = "scan_check"
    /\ proc[p].tok = PrimaryToken(proc[p].cur)
    /\ \E v \in sessions[proc[p].cur].validTokens : v.expiresAt <= now

\* C19: a scan of a student who holds a record for the session is answered
\* AlreadyMarked whatever its fix, never with a rejection of the position
\* check, and AlreadyMarked is answered as a success.
C19_AlreadyMarkedIsSuccess ==
  [][\A p \in Procs :
       (/\ proc[p].op = "scan"
        /\ proc[p].pc \in {"scan_check", "scan_marked"}
        /\ proc'[p].pc = "done"
        /\ RecordsFor(proc[p].cur, proc[p].st) # {})
         => /\ proc'[p].res \notin PositionRejections
            /\ proc'[p].res = "already-marked" => HttpStatus(proc'[p].res) < 400]_vars

\* C21: one session's close failure does not prevent the remaining sessions of
\* that sweep from being closed: when a sweep is over, none of the sessions it
\* still had to close is Active.
C21_SweepIsolatesFailures ==
  [][\A p \in Procs :
       (proc[p].op = "sweep" /\ proc[p].pc # "done" /\ proc'[p].pc = "done")
         => \A s \in proc[p].todo : sessions'[s].status # "active"]_vars

\* C23: a close invoked again on an Expired session whose back-fill is
\* incomplete, while no other close of it is under way, re-runs the back-fill
\* (it goes on to the save and the back-fill instead of returning).
IncompleteBackfill(s) ==
  \E st \in EnrolledIn(sessions[s].course, sessions[s].semester) : RecordsFor(s, st) = {}

C23_RepeatedCloseRerunsBackfill ==
  [][\A p \in Procs :
       (/\ proc[p].pc = "end_read"
        /\ proc'[p] # proc[p]
        /\ sessions[proc[p].cur].status = "expired"
        /\ IncompleteBackfill(proc[p].cur)
        /\ \A q \in Procs \ {p} : ~ (proc[q].op \in CloseOps /\ proc[q].cur = proc[p].cur))
         => proc'[p].pc \in {"end_save", "end_find", "end_insert"}]_vars

\* C22: when the back-fill inside a close fails, the status change is not
\* rolled back: the failing step writes nothing to the session, which is
\* already out of Active, and no step ever brings a session back to Active.
BackfillFails(p) ==
  proc[p].pc = "end_insert" /\ proc'[p].pc = "done" /\ proc'[p].res = "error"

CreateStep(p) == proc[p].op = "idle" /\ proc'[p].op = "create"

C25_LocationIffQr ==
  \A s \in SessionIds :
    /\ sessions[s].location # NoLocation <=> sessions[s].type = "QR"
    /\ sessions[s].type = "QR" =>
         IsFinite(sessions[s].location.lat) /\ IsFinite(sessions[s].location.lng)

C25_Witness ==
  \E p \in Procs :
    /\ proc[p].op = "location"
    /\ proc[p].pc = "done"
    /\ proc[p].res = "updated"
    /\ sessions[proc[p].cur].type # "QR"
    /\ sessions[proc[p].cur].location = NoLocation

\* C26: once locationLockedAt is set no step changes the session's location,
\* and the save of a location update that changed lat, lng or accuracy on its
\* copy fails.
Locked(s) == sessions[s].locationLockedAt # NoDate

C26_LockedLocationImmutable ==
  [][/\ \A s \in SessionIds : Locked(s) => sessions'[s].location = sessions[s].location
     /\ \A p \in Procs :
          (/\ proc[p].pc = "loc_save"
           /\ proc'[p] # proc[p]
           /\ Locked(proc[p].cur)
           /\ proc[p].loc # proc[p].floc)
            => proc'[p].res = "error"]_vars

C26_Witness ==
  \E p \in Procs :
    /\ proc[p].op = "location"
    /\ proc[p].pc = "done"
    /\ proc[p].res = "error"
    /\ Locked(proc[p].cur)
    /\ sessions[proc[p].cur].location = RawLocation(7, 4, 60, 50)

\* C27: a manual mark, single or bulk, writes a record only while the course
\* has an Active session.
ManualWrites(p) ==
  \/ proc[p].op = "idle" /\ proc'[p].op = "mark" /\ proc'[p].res = "marked"
  \/ proc[p].pc = "bulk_upsert" /\ proc'[p] # proc[p]

C27_ManualMarkNeedsActiveSession ==
  [][\A p \in Procs :
       ManualWrites(p) => ActiveSessionsOf(proc'[p].course) # {}]_vars

\* C30: a create in QR mode whose body has no location, a lat or lng that is
\* not finite, or an accuracy that is not finite is answered 400 and persists
\* no session, no credential and nothing else.
MalformedLocation(loc) ==
  loc = NoLocation \/ loc.lat = NaN \/ loc.lng = NaN \/ loc.accuracy = NaN

C30_MalformedQrCreateRejected ==
  [][\A p \in Procs :
       (CreateStep(p) /\ SafeType(proc'[p].ctype) = "QR" /\ MalformedLocation(proc'[p].loc))
         => /\ proc'[p].res \in {"location-required", "invalid-gps"}
            /\ UNCHANGED <<sessions, attendance, emitted>>]_vars

C30_Witness ==
  \E p \in Procs :
    /\ proc[p].op = "create"
    /\ proc[p].pc = "done"
    /\ proc[p].ctype = "QR"
    /\ proc[p].loc = RawLocation(7, 4, 60, NaN)
    /\ proc[p].res = "invalid-gps"
    /\ sessions = << >>

\* C28: a scan is let past the lookup exactly when its token is the primary
\* token or an unexpired rotated token of an Active session, and then it
\* holds that session; any other token (one of an Expired or Cancelled
\* session, a rotated token past its expiry, one never issued) is answered
\* NotFound and the step changes nothing.
ScanLookup(p) == proc[p].op = "idle" /\ proc'[p].op = "scan"

ValidCredential(s, tok) ==
  /\ sessions[s].status = "active"
  /\ \/ sessions[s].token = tok
     \/ \E v \in sessions[s].validTokens : v.token = tok /\ v.expiresAt > now

C28_InvalidTokenNotFound ==
  [][\A p \in Procs :
       ScanLookup(p) =>
         IF \E s \in SessionIds : ValidCredential(s, proc'[p].tok)
           THEN proc'[p].pc = "scan_check" /\ ValidCredential(proc'[p].cur, proc'[p].tok)
           ELSE /\ proc'[p].pc = "done"
                /\ proc'[p].res = "not-found"
                /\ UNCHANGED <<sessions, attendance, emitted>>]_vars

C28_Witness ==
  \E p \in Procs :
    /\ proc[p].op = "scan"
    /\ proc[p].res = "not-found"
    /\ sessions[1].status = "active"
    /\ \E v \in sessions[1].validTokens : v.token = proc[p].tok /\ v.expiresAt <= now

\* C29: a scan that records rotates exactly when its token was the primary
\* token; with a rotated token the recording step leaves the session as it
\* is; and the rotation set is changed by no step other than the rotation of
\* a refresh or of a scan that recorded with the primary token.
PrimaryScan(p) == proc[p].op = "scan" /\ proc[p].tok = sessions[proc[p].cur].token

C29_RotationIffPrimaryToken ==
  [][/\ \A p \in Procs :
          (proc[p].pc = "scan_write" /\ attendance' # attendance /\ proc'[p] # proc[p])
            => /\ proc'[p].pc = "rotate" <=> PrimaryScan(p)
               /\ ~ PrimaryScan(p) => proc'[p].res = "recorded" /\ sessions' = sessions
     /\ \A s \in SessionIds :
          sessions'[s].validTokens # sessions[s].validTokens
            => \E p \in Procs :
                 /\ proc[p].pc = "rotate"
                 /\ proc[p].cur = s
                 /\ proc'[p] # proc[p]
                 /\ \/ proc[p].op = "refresh"
                    \/ PrimaryScan(p) /\ RecordsFor(s, proc[p].st) # {}]_vars

C29_Witness ==
  \E p \in Procs :
    /\ proc[p].op = "scan"
    /\ proc[p].pc = "done"
    /\ proc[p].res = "recorded"
    /\ proc[p].tok.kind = "hex"
    /\ RecordsFor(proc[p].cur, proc[p].st) # {}

\* C31: a close publishes last: at the step that publishes the close
\* notification of a session, its stored status is Expired, its stored
\* deadline is not later than the clock, and once the step is done no roster
\* row of the course is left without a record.
PublishesClose(s) ==
  emitted' # emitted /\ emitted'.source = "auto-expire" /\ emitted'.session = s

C31_ClosePublishesLast ==
  [][\A s \in SessionIds :
       PublishesClose(s) => /\ sessions[s].status = "expired"
                            /\ sessions[s].expiresAt <= now
                            /\ (Absentees(s))' = {}]_vars

\* C37: at no clock value is a session both selected by the sweep and still
\* within the deadline a scan accepts.
ScanWithinDeadline(s) == ~ ScanPastDeadline(now, sessions[s].expiresAt)

C37_SweepAndScanExclusive ==
  \A s \in SessionIds : ~ (SweepSelects(s) /\ ScanWithinDeadline(s))

\* C32: when a create that found Active sessions is rejected for its
\* location, it persists no session, every session it had to close is Expired
\* with no roster row left without a record, and the course has no Active
\* session.
CreateRejectedAfterClose(p) ==
  /\ proc[p].op = "create"
  /\ proc[p].pc \in {"end_read", "end_find", "end_insert"}
  /\ proc'[p].pc = "done"
  /\ proc'[p].res \in {"location-required", "invalid-gps"}

C32_RejectedCreateLeavesCourseClosed ==
  [][\A p \in Procs :
       CreateRejectedAfterClose(p)
         => /\ Len(sessions') = Len(sessions)
            /\ \A s \in proc[p].todo :
                 sessions'[s].status = "expired" /\ (Absentees(s))' = {}
            /\ \A s \in SessionIds :
                 sessions'[s].course = proc[p].course => sessions'[s].status # "active"]_vars

\* A step of the scan of slot p.
ScanSteps(p) == proc[p].op = "scan" /\ proc'[p] # proc[p]

\* C35: a scan never creates an attendance record for a session whose mode
\* is MANUAL or ROLLCALL, although every session has a primary token: the
\* scan that found a non-QR Active session by its primary token is answered
\* "This session does not support QR attendance" and writes nothing; every
\* record a scan writes belongs to a QR session.
C35_ScanRecordsOnlyQrSessions ==
  [][\A p \in Procs :
       /\ (ScanSteps(p) /\ attendance' # attendance) => sessions[proc[p].cur].type = "QR"
       /\ (/\ ScanSteps(p)
           /\ proc[p].pc = "scan_check"
           /\ proc[p].fStatus = "active"
           /\ sessions[proc[p].cur].type # "QR")
            => /\ proc'[p].pc = "done"
               /\ proc'[p].res = "not-qr"
               /\ attendance' = attendance
               /\ sessions' = sessions
               /\ emitted' = emitted]_vars

\* A scan that presented the primary token of an Active MANUAL or ROLLCALL
\* session was turned away, and the session has no record.
C35_Witness ==
  \E p \in Procs :
    /\ proc[p].op = "scan"
    /\ proc[p].pc = "done"
    /\ proc[p].res = "not-qr"
    /\ proc[p].tok = sessions[proc[p].cur].token
    /\ sessions[proc[p].cur].type \in {"MANUAL", "ROLLCALL"}
    /\ sessions[proc[p].cur].status = "active"
    /\ RecordsOf(proc[p].cur) = {}

\* The step in which slot p answers GET /active/:courseId.
AnswersActive(p) == proc[p].op = "idle" /\ proc'[p].op = "active"

\* C36: GET /active/:courseId reports a session only if its stored status is
\* Active and its deadline is strictly in the future; when no session of the
\* course is both (a passed deadline not yet swept, an Expired or Cancelled
\* session), the answer is "not active".
C36_ReportsOnlyActiveAndAhead ==
  [][\A p \in Procs :
       AnswersActive(p) =>
         /\ proc'[p].res \in {"active", "not-active"}
         /\ proc'[p].res = "active" =>
              /\ sessions[proc'[p].cur].course = proc'[p].course
              /\ sessions[proc'[p].cur].status = "active"
              /\ sessions[proc'[p].cur].expiresAt > now
         /\ (\A s \in SessionIds :
               \/ sessions[s].course # proc'[p].course
               \/ sessions[s].status \in {"expired", "cancelled"}
               \/ sessions[s].expiresAt <= now)
              => proc'[p].res = "not-active"]_vars

\* The answer was "not active" for a course whose session is still stored as
\* Active with its deadline reached.
C36_Witness ==
  \E p \in Procs, s \in SessionIds :
    /\ proc[p].op = "active"
    /\ proc[p].pc = "done"
    /\ proc[p].res = "not-active"
    /\ sessions[s].course = proc[p].course
    /\ sessions[s].status = "active"
    /\ sessions[s].expiresAt <= now

\* The step in which slot p reads the session of a refresh and decides.
RefreshDecides(p) == proc[p].op = "idle" /\ proc'[p].op = "refresh"

\* C34: a refresh succeeds only on a QR session whose status is Active: on
\* an Expired or Cancelled session and on a MANUAL or ROLLCALL session the
\* request is rejected and the rotation set stays as it was.
C34_RefreshOnlyActiveQr ==
  [][\A p \in Procs :
       RefreshDecides(p) =>
         \/ /\ sessions[proc'[p].cur].status = "active"
            /\ sessions[proc'[p].cur].type = "QR"
         \/ /\ proc'[p].pc = "done"
            /\ proc'[p].res \in {"session-expired", "not-qr"}
            /\ sessions' = sessions]_vars

\* The step in which slot p saves its rotation.
RotationSaves(p) == proc[p].pc = "rotate" /\ proc'[p] # proc[p]

\* C33: a rotation changes only the rotation set of its session.  The save
\* at the end of a scan recorded with the primary token, or of a refresh,
\* made on a copy read before a concurrent close or cancel, leaves the stored
\* status and deadline (and every other field, and every other session) as
\* the close or cancel wrote them: an Expired or Cancelled session is not
\* returned to Active and its deadline is not moved.
C33_RotationWritesOnlyRotationSet ==
  [][\A p \in Procs :
       RotationSaves(p) =>
         /\ Len(sessions') = Len(sessions)
         /\ \A s \in SessionIds :
              /\ sessions'[s] = [sessions[s] EXCEPT !.validTokens = sessions'[s].validTokens]
              /\ sessions'[s].status = sessions[s].status
              /\ sessions'[s].expiresAt = sessions[s].expiresAt
              /\ s # proc[p].cur => sessions'[s] = sessions[s]]_vars

\* A scan recorded with the primary token has saved its rotation into a
\* session that a close or cancel had ended since the scan read it: the
\* scan's event is the last one published, no other request is in flight,
\* and the session is stored Expired or Cancelled with the rotated token.
C33_Witness ==
  \E p \in Procs :
    /\ proc[p].op = "scan"
    /\ proc[p].pc = "done"
    /\ proc[p].res = "recorded"
    /\ proc[p].tok = sessions[proc[p].cur].token
    /\ sessions[proc[p].cur].status \in {"expired", "cancelled"}
    /\ sessions[proc[p].cur].validTokens # {}
    /\ emitted = [Emit(proc[p].cur, "qr") EXCEPT !.seq = emitted.seq]
    /\ \A q \in Procs \ {p} : proc[q].op = "idle"

====
